---- MODULE Spec2Model ----
(***************************************************************************)
(* Model of nikonKsSync.py: the PCAS driver that synchronizes the Nikon    *)
(* DS-Qi2 detector with an x-ray source.                                   *)
(*                                                                         *)
(* Threads of the program:                                                 *)
(*   - the pollQi2 thread (started in __init__ when the DAQ initializes),  *)
(*   - one sync thread per TRIGGER=1 write,                                *)
(*   - one sendTrigger thread per SEND_TRIGGER write (Hard mode),          *)
(*   - one scanAbortSeq thread per monitor event of AbortScans.PROC.       *)
(* Environment: the detector lines, the x-ray source IOC, the sscan        *)
(* record and the operator.                                                *)
(*                                                                         *)
(* Specifications:                                                         *)
(*   Spec        single exposures, Hard and Soft mode, every source mode   *)
(*   SpecScan    scans and scan aborts in Hard mode                        *)
(*   SpecSoft    Soft mode, with the operator writing SEND_TRIGGER         *)
(*   SpecPoll    the pollQi2 thread on arbitrary samples of the lines      *)
(*   SpecReport  afterScan on the duty-cycle lists a scan can leave        *)
(*   SpecAbort   a scan and its aborts with source OXFORD, fair threads    *)
(*   SpecFlux    single exposures with the source in any status            *)
(*   SpecMaster  scans and the master abort (ABORT), Soft mode             *)
(*   SpecMode    single exposures with XSYNC written and read back, Soft   *)
(*   SpecDuty    scans in Hard mode, none aborted, on a coarse clock       *)
(*                                                                         *)
(* Time is counted in clock ticks; time.clock() never decreases.  The      *)
(* time.sleep calls of sync order nothing and are left out.  A Python      *)
(* exception that nothing catches ends the thread that raised it.          *)
(***************************************************************************)
EXTENDS Integers, Sequences, FiniteSets, TLC

\* ------------------------------------------------------------------ bounds
MaxClock == 6         \* largest value of time.clock()
MaxSync == 2          \* sync threads alive at once
MaxTriggers == 2      \* TRIGGER=1 writes in a behaviour
MaxAborts == 2        \* scanAbortSeq threads pending at once
MaxPts == 2           \* points of a scan
MaxLen == 4           \* length of a duty-cycle list handed to afterScan (SpecReport)
MaxAxes == 2          \* motion axes of MOTOR_IOC_LIST the model follows

\* --------------------------------------------------------------- variables
VARIABLES
  daq_init_flag,          \* 1: Hard (DAQ tasks created), 0: Soft
  param,                  \* pcaspy parameter table (getParam/setParam)
  clock,                  \* last value returned by time.clock()
  clockSteps,             \* by how much time.clock() can grow between two reads
  lines,                  \* physical input lines <<ready, exposing>>
  pollPc,                 \* pollQi2 thread: "off" (never started), "first", "loop"
  oldval,                 \* pollQi2 local
  shutter_open, shutter_close, trigger_not_ready_rbv, idleTime,
  shutterTime,            \* <<"unset",0>> | <<"float",t>> | <<"list",0>>
  edges,                  \* history of the edges pollQi2 processed (SpecPoll only)
  pc,                     \* position of each sync thread ("idle": no thread in the slot)
  runId,                  \* which TRIGGER write started the thread of a slot
  total_cpts, total_npts, dutyCycleList, shutterTimeList,
  mean_stats,             \* length of mean_stats (and of sigma_stats)
  report,                 \* the duty-cycle list the last scan report aggregates
  trigThreads,            \* sendTrigger threads started and not yet run
  trigLine,               \* level of the trigger output line
  abortPending,           \* scanAbortSeq threads started and not yet run
  xrayStatus, xrayFiring, \* STATUS_RBV and FIRING_RBV of the source
  xrayCmd,                \* last command put to the source
  detPhase, detReq,       \* the detector: its place in the exposure cycle, a pending request
  scanBusy, scanDim, scanNpts, scanPt, scanWait,   \* the sscan record
  nTriggers,              \* TRIGGER=1 writes so far
  abortPc,                \* allAbort thread: "idle" (none), "scans", "motors", "acquire"
  dmov,                   \* the .DMOV field of each axis (0: moving)
  stopSent,               \* the axes whose .STOP was put and has not acted yet
  acquire,                \* cam1:Acquire
  XRAY_IOC,               \* the global prefix of the source's records: "OXFORD", "SRI", ""
  hist                    \* history variables of the properties

fixed == <<daq_init_flag, clockSteps, XRAY_IOC>>
pollVars == <<clock, pollPc, oldval, shutter_open, shutter_close,
              trigger_not_ready_rbv, idleTime>>
threadVars == <<pc, runId>>
countVars == <<total_cpts, total_npts>>
listVars == <<dutyCycleList, shutterTimeList, mean_stats, report>>
daqVars == <<trigThreads, trigLine>>
xrayVars == <<xrayStatus, xrayFiring, xrayCmd>>
detVars == <<detPhase, detReq, lines>>
scanVars == <<scanBusy, scanDim, scanNpts, scanPt, scanWait>>
masterVars == <<abortPc, dmov, stopSent>>
vars == <<fixed, masterVars, acquire, param, shutterTime, edges, pollVars, threadVars,
          countVars, listVars, daqVars, abortPending, nTriggers, xrayVars, detVars,
          scanVars, hist>>

Bit == {0, 1}
SyncIds == 1 .. MaxSync

\* MOTOR_IOC_LIST, lines 97-105
Axes == 1 .. MaxAxes

\* time.clock(): a value not smaller than the one given
ClockReads(last) == {last + d : d \in clockSteps} \cap (0 .. MaxClock)

\* pvdb: the records the model uses; pcaspy initializes every value to 0 (DUTYCYCLE_RBV
\* is kept as the fraction <<numerator, denominator>>)
ParamNames == {"XSYNC", "TRIGGER", "SEND_TRIGGER", "TRIGGER_READY_RBV",
               "EXPOSING_RBV", "REPORT", "DUTYCYCLE_RBV"}

setParam(p, reason, value) == [p EXCEPT ![reason] = value]

\* ------------------------------------------------------------ Edge poller
\* line 330
IdleDurationSwapped(tnr, sclose) == sclose - tnr
IdleDuration(tnr, sclose) == tnr - sclose

\* line 334
ShutterDuration(sclose, sopen) == sclose - sopen

\* a level-triggered reading of the lines: a transition whenever the line is asserted
EdgeOnLevel(new, old) == new = 1

\* lines 328 and 340: a line differs from its level in the previous sample
Edge(new, old) == new # old

\* lines 320-321: the first read only sets oldval
pollQi2_first ==
  /\ pollPc = "first"
  /\ oldval' = lines
  /\ pollPc' = "loop"
  /\ UNCHANGED <<fixed, masterVars, acquire,
                 param, shutterTime, clock, shutter_open, shutter_close,
                 trigger_not_ready_rbv, idleTime, threadVars, countVars, listVars,
                 daqVars, abortPending, nTriggers, xrayVars, detVars, scanVars, hist>>

\* lines 323-354: one turn of the loop; tr and te are the values time.clock() returns
\* at the edge of the ready line and then at the edge of the exposing line
pollQi2_loop ==
  /\ pollPc = "loop"
  /\ LET newval == lines
         readyEdge == Edge(newval[1], oldval[1])
         expEdge == Edge(newval[2], oldval[2])
     IN /\ param' = setParam(setParam(param, "TRIGGER_READY_RBV", newval[1]),
                             "EXPOSING_RBV", newval[2])
        /\ \E tr \in (IF readyEdge THEN ClockReads(clock) ELSE {clock}) :
             \E te \in (IF expEdge THEN ClockReads(tr) ELSE {tr}) :
               /\ clock' = te
               /\ IF readyEdge /\ newval[1] = 1
                    THEN /\ idleTime' = IdleDuration(trigger_not_ready_rbv, shutter_close)
                         /\ shutter_close' = tr
                         /\ shutterTime' = <<"float", ShutterDuration(tr, shutter_open)>>
                    ELSE UNCHANGED <<idleTime, shutter_close, shutterTime>>
               /\ trigger_not_ready_rbv' =
                    IF readyEdge /\ newval[1] = 0 THEN tr ELSE trigger_not_ready_rbv
               /\ shutter_open' = IF expEdge /\ newval[2] = 1 THEN te ELSE shutter_open
        /\ oldval' = newval
  /\ UNCHANGED <<fixed, masterVars, acquire,
                 pollPc, threadVars, countVars, listVars, daqVars, abortPending,
                 nTriggers, xrayVars, detVars, scanVars, hist>>

pollQi2 == pollQi2_first \/ pollQi2_loop

\* ------------------------------------------------------- Flux controller
\* read, lines 254-259: the record prefix of the source a value of XSYNC selects
Endpoint(xsync) ==
  CASE xsync = 2 -> "OXFORD"
    [] xsync = 1 -> "SRI"
    [] OTHER -> ""

\* caget(XRAY_IOC + ...): the value of the source's record; None (here -1) when the
\* prefix is empty and names no record
caget(ioc, value) == IF ioc = "" THEN -1 ELSE value

\* caput(XRAY_IOC + ..., value): the command reaches the source unless the prefix is empty
caput(ioc, value, cmd) == IF ioc = "" THEN cmd ELSE value

\* stopXray, lines 403-411: the command the source has received last
stopXrayAnyMode(cmd) == "off"
stopXray(cmd) == IF param["XSYNC"] = 0 THEN cmd ELSE caput(XRAY_IOC, "off", cmd)

\* whether stopXray puts a command at all, line 407
StopXrayPuts == param["XSYNC"] # 0

\* a thread of a slot ends (returns or dies of an exception); the history forgets its run
EndThread(t) ==
  /\ pc' = [pc EXCEPT ![t] = "idle"]
  /\ runId' = [runId EXCEPT ![t] = 0]
  /\ hist' = [hist EXCEPT !.fluxDone = @ \ {runId[t]}, !.trigIssued = @ \ {runId[t]}]

Goto(t, label) == pc' = [pc EXCEPT ![t] = label]

\* where a new sync thread starts: lines 440-442, startXray comes first
SyncEntryNoFlux == "trigger"
SyncEntry == "startXray"

\* startXray, lines 375-401, up to its wait for FIRING_RBV: the command it puts.
\* The reads of STATUS_RBV (lines 376, 380, 383, 390) are taken as one read.
StartXrayCmd(xsync, status, cmd) ==
  CASE xsync = 2 /\ status = 1 -> "on"
    [] xsync = 2 /\ status \in {2, 3} -> "pulse_off"
    [] xsync = 1 -> "on"
    [] OTHER -> cmd

\* startXray returns at once on fault (5) and on warming (0), lines 376-382
FluxError(xsync, status) == xsync = 2 /\ status \in {0, 5}

\* startXray polls FIRING_RBV after ON (standby) and after PULSE_MODE 0, lines 387, 393
StartXrayWaits(xsync, status) == xsync = 2 /\ status \in {1, 2, 3}

\* sync, lines 440-442, and startXray, lines 375-401
sync_startXray(t) ==
  /\ pc[t] = "startXray"
  /\ xrayCmd' = caput(XRAY_IOC, StartXrayCmd(param["XSYNC"], caget(XRAY_IOC, xrayStatus),
                                               xrayCmd), xrayCmd)
  /\ IF StartXrayWaits(param["XSYNC"], caget(XRAY_IOC, xrayStatus))
       THEN Goto(t, "x_wait") /\ UNCHANGED hist
       ELSE /\ Goto(t, "trigger")
            /\ hist' = [hist EXCEPT !.fluxDone = @ \cup {runId[t]}]
  /\ UNCHANGED <<fixed, masterVars, acquire,
                 param, shutterTime, edges, pollVars, runId, countVars, listVars,
                 daqVars, abortPending, nTriggers, xrayStatus, xrayFiring, detVars,
                 scanVars>>

\* startXray, lines 387-388 and 393-394: poll FIRING_RBV until it is 1
startXray_wait(t) ==
  /\ pc[t] = "x_wait"
  /\ caget(XRAY_IOC, xrayFiring) = 1
  /\ Goto(t, "trigger")
  /\ hist' = [hist EXCEPT !.fluxDone = @ \cup {runId[t]}]
  /\ UNCHANGED <<fixed, masterVars, acquire,
                 param, shutterTime, edges, pollVars, runId, countVars, listVars,
                 daqVars, abortPending, nTriggers, xrayVars, detVars, scanVars>>

\* --------------------------------------------------------- Trigger driver
\* write, lines 282-286: a SEND_TRIGGER write starts a sendTrigger thread in Hard mode only
SendTriggerStartsAlways(flag) == TRUE
SendTriggerStarts(flag) == flag = 1

\* the sendTrigger threads after write('SEND_TRIGGER', value) of run r (0: the operator)
write_SEND_TRIGGER(r, value) ==
  IF SendTriggerStarts(daq_init_flag)
    THEN trigThreads \cup {[run |-> r, value |-> value]}
    ELSE trigThreads

\* sendTrigger and processDAQstatus, lines 356-369: the write reaches the line, or the
\* device returns a status # 0 (the thread then only prints)
sendTrigger ==
  /\ \E th \in trigThreads :
       /\ trigThreads' = trigThreads \ {th}
       /\ \/ /\ trigLine' = th.value
             /\ detReq' = IF trigLine = 0 /\ th.value = 1 /\ detPhase = "idle"
                            THEN TRUE ELSE detReq
          \/ UNCHANGED <<trigLine, detReq>>
  /\ UNCHANGED <<fixed, masterVars, acquire,
                 param, shutterTime, edges, pollVars, threadVars, countVars,
                 listVars, abortPending, nTriggers, xrayVars, detPhase, lines, scanVars,
                 hist>>

\* ---------------------------------------------------------- Sync sequencer
\* sync, lines 443-445 (Hard: SEND_TRIGGER 0) and 455-457 (Soft: cam1:SoftTrigger)
sync_trigger(t) ==
  /\ pc[t] = "trigger"
  /\ IF daq_init_flag = 1
       THEN /\ trigThreads' = write_SEND_TRIGGER(runId[t], 0)
            /\ param' = setParam(param, "SEND_TRIGGER", 0)
            /\ Goto(t, "wait_ready")
       ELSE /\ Goto(t, "soft_wait")
            /\ UNCHANGED <<trigThreads, param>>
  /\ hist' = [hist EXCEPT !.trigIssued = @ \cup {runId[t]}]
  /\ UNCHANGED <<fixed, masterVars, acquire,
                 shutterTime, edges, pollVars, runId, countVars, listVars,
                 trigLine, abortPending, nTriggers, xrayVars, detVars, scanVars>>

\* sync, lines 447-451: wait for TRIGGER_READY_RBV = 1, then SEND_TRIGGER 1
sync_wait_ready(t) ==
  /\ pc[t] = "wait_ready"
  /\ param["TRIGGER_READY_RBV"] = 1
  /\ trigThreads' = write_SEND_TRIGGER(runId[t], 1)
  /\ param' = setParam(param, "SEND_TRIGGER", 1)
  /\ Goto(t, "wait_exposing")
  /\ UNCHANGED <<fixed, masterVars, acquire,
                 shutterTime, edges, pollVars, runId, countVars, listVars,
                 trigLine, abortPending, nTriggers, xrayVars, detVars, scanVars, hist>>

\* sync, lines 452-454: wait while EXPOSING_RBV = 1
sync_wait_exposing(t) ==
  /\ pc[t] = "wait_exposing"
  /\ param["EXPOSING_RBV"] # 1
  /\ Goto(t, "scan_logic")
  /\ UNCHANGED <<fixed, masterVars, acquire,
                 param, shutterTime, edges, pollVars, runId, countVars, listVars,
                 daqVars, abortPending, nTriggers, xrayVars, detVars, scanVars, hist>>

\* sync, lines 458-459: sleep for the detector's acquire time
sync_soft_wait(t) ==
  /\ pc[t] = "soft_wait"
  /\ Goto(t, "scan_logic")
  /\ UNCHANGED <<fixed, masterVars, acquire,
                 param, shutterTime, edges, pollVars, runId, countVars, listVars,
                 daqVars, abortPending, nTriggers, xrayVars, detVars, scanVars, hist>>

\* sync, lines 461-463 (scan running: total_cpts += 1, taken as one step, and
\* scan1.WAIT = 0) or lines 488-491 (single exposure: stopXray, TRIGGER = 0)
sync_scan_logic(t) ==
  /\ pc[t] = "scan_logic"
  /\ IF scanBusy
       THEN /\ total_cpts' = total_cpts + 1
            /\ scanWait' = FALSE
            /\ Goto(t, "append")
            /\ UNCHANGED <<runId, xrayCmd, param, hist>>
       ELSE /\ xrayCmd' = stopXray(xrayCmd)
            /\ param' = setParam(param, "TRIGGER", 0)
            /\ EndThread(t)
            /\ UNCHANGED <<total_cpts, scanWait>>
  /\ UNCHANGED <<fixed, masterVars, acquire,
                 shutterTime, edges, pollVars, total_npts, listVars, daqVars,
                 abortPending, nTriggers, xrayStatus, xrayFiring, detVars, scanBusy,
                 scanDim, scanNpts, scanPt>>

\* sync, lines 464-467: Hard appends self.shutterTime (AttributeError while pollQi2 has
\* not set it), Soft appends cam1:AcquireTime_RBV
sync_append(t) ==
  /\ pc[t] = "append"
  /\ IF daq_init_flag = 1 /\ shutterTime[1] = "unset"
       THEN /\ EndThread(t)
            /\ UNCHANGED shutterTimeList
       ELSE /\ shutterTimeList' = Append(shutterTimeList,
                                         IF daq_init_flag = 1 THEN shutterTime
                                                              ELSE <<"acquire", 0>>)
            /\ Goto(t, "duty")
            /\ UNCHANGED <<runId, hist>>
  /\ UNCHANGED <<fixed, masterVars, acquire,
                 param, shutterTime, edges, pollVars, countVars, dutyCycleList,
                 mean_stats, report, daqVars, abortPending, nTriggers, xrayVars, detVars,
                 scanVars>>

\* line 468: a duty cycle is computed from the second counted exposure on, in Hard mode
DutyDue(cpts, flag) == cpts > 1 /\ flag = 1

\* the quotient of line 469 as the fraction <<numerator, denominator>>
DutyCycle(shutter, idle) == <<shutter, idle + shutter>>

\* the percentage of line 470, as a fraction
DutyPercent(shutter, idle) == <<100 * shutter, idle + shutter>>

\* lines 469 and 470 raise TypeError when shutterTime is a list, ZeroDivisionError when
\* idleTime + shutterTime = 0
DutyRaises == shutterTime[1] # "float" \/ idleTime + shutterTime[2] = 0

\* sync, lines 468-469
sync_duty(t) ==
  /\ pc[t] = "duty"
  /\ IF DutyDue(total_cpts, daq_init_flag)
       THEN IF DutyRaises
              THEN /\ EndThread(t)
                   /\ UNCHANGED dutyCycleList
              ELSE /\ dutyCycleList' = Append(dutyCycleList,
                                              DutyCycle(shutterTime[2], idleTime))
                   /\ Goto(t, "publish")
                   /\ UNCHANGED <<runId, hist>>
       ELSE /\ Goto(t, "finish")
            /\ UNCHANGED <<runId, dutyCycleList, hist>>
  /\ UNCHANGED <<fixed, masterVars, acquire,
                 param, shutterTime, edges, pollVars, countVars, shutterTimeList,
                 mean_stats, report, daqVars, abortPending, nTriggers, xrayVars, detVars,
                 scanVars>>

\* sync, line 470
sync_publish(t) ==
  /\ pc[t] = "publish"
  /\ IF DutyRaises
       THEN /\ EndThread(t)
            /\ UNCHANGED param
       ELSE /\ param' = setParam(param, "DUTYCYCLE_RBV",
                                 DutyPercent(shutterTime[2], idleTime))
            /\ Goto(t, "finish")
            /\ UNCHANGED <<runId, hist>>
  /\ UNCHANGED <<fixed, masterVars, acquire,
                 shutterTime, edges, pollVars, countVars, listVars, daqVars,
                 abortPending, nTriggers, xrayVars, detVars, scanVars>>

\* lines 476-483: the product of the NPTS of the scan's dimensions
TotalNpts(dim, npts, old) ==
  CASE dim = 4 -> npts[1] * npts[2] * npts[3] * npts[4]
    [] dim = 3 -> npts[1] * npts[2] * npts[3]
    [] dim = 2 -> npts[1] * npts[2]
    [] dim = 1 -> npts[1]
    [] OTHER -> old

\* afterScan, lines 419-425: pop(0), then pop(1); an IndexError ends the popping
DiscardFirstTwo(l) ==
  IF Len(l) = 0 THEN l
  ELSE LET l1 == Tail(l)
       IN IF Len(l1) < 2 THEN l1
          ELSE <<l1[1]>> \o SubSeq(l1, 3, Len(l1))

\* scanReport, lines 501-507, in Hard mode: np.nanmin of an empty list raises ValueError
ScanReportRaises(l) ==
  daq_init_flag = 1 /\ (shutterTime[1] = "list" \/ Len(l) = 0)

\* scanReport, lines 505-507: the report aggregates the duty-cycle list in Hard mode
ScanReport(l, old) == IF daq_init_flag = 1 THEN <<"written", l>> ELSE old

\* afterScan, lines 413-433
afterScan ==
  /\ xrayCmd' = stopXray(xrayCmd)
  /\ param' = setParam(param, "TRIGGER", 0)
  /\ IF param["REPORT"] = 1
       THEN LET l == DiscardFirstTwo(dutyCycleList)
            IN /\ mean_stats' = 0
               /\ IF ScanReportRaises(l)
                    THEN /\ dutyCycleList' = l
                         /\ UNCHANGED <<shutterTime, total_cpts, report>>
                    ELSE /\ report' = ScanReport(l, report)
                         /\ dutyCycleList' = <<>>
                         /\ shutterTime' = <<"list", 0>>
                         /\ total_cpts' = 0
       ELSE /\ dutyCycleList' = <<>>
            /\ shutterTime' = <<"list", 0>>
            /\ total_cpts' = 0
            /\ UNCHANGED <<mean_stats, report>>

\* line 484
ScanDone(cpts, npts) == cpts >= npts

\* sync, lines 472-486 and 491: image statistics, total_npts, afterScan on the last point
sync_finish(t) ==
  /\ pc[t] = "finish"
  /\ total_npts' = TotalNpts(scanDim, scanNpts, total_npts)
  /\ IF ScanDone(total_cpts, total_npts')
       THEN afterScan
       ELSE /\ mean_stats' = IF param["REPORT"] = 1 THEN mean_stats + 1 ELSE mean_stats
            /\ UNCHANGED <<xrayCmd, param, dutyCycleList, shutterTime, total_cpts, report>>
  /\ EndThread(t)
  /\ UNCHANGED <<fixed, masterVars, acquire,
                 edges, pollVars, shutterTimeList, daqVars, abortPending,
                 nTriggers, xrayStatus, xrayFiring, detVars, scanVars>>

\* sync, line 442: startXray and its wait
sync_flux(t) == sync_startXray(t) \/ startXray_wait(t)

\* sync, lines 443-454 (Hard) or 455-459 (Soft), and the branch of line 461
sync_exposure(t) ==
  \/ sync_trigger(t) \/ sync_wait_ready(t) \/ sync_wait_exposing(t) \/ sync_soft_wait(t)
  \/ sync_scan_logic(t)

\* sync, lines 464-486, in a running scan
sync_stats(t) == sync_append(t) \/ sync_duty(t) \/ sync_publish(t) \/ sync_finish(t)

\* ------------------------------------------------------ Abort coordinator
\* scanAbortCallback, lines 578-584: every monitor event of AbortScans.PROC starts a
\* scanAbortSeq thread; the sscan record stops its scan.  The operator aborts a running
\* scan, and may press abort again while an abort is under way
scanAbortCallback ==
  /\ abortPending < MaxAborts
  /\ scanBusy \/ abortPending > 0
  /\ abortPending' = abortPending + 1
  /\ scanBusy' = FALSE
  /\ scanWait' = FALSE
  /\ scanPt' = 0
  /\ UNCHANGED <<fixed, masterVars, acquire,
                 param, shutterTime, edges, pollVars, threadVars, countVars,
                 listVars, daqVars, nTriggers, xrayVars, detVars, scanDim, scanNpts, hist>>

\* scanAbortSeq, lines 586-601
scanAbortSeq ==
  /\ abortPending > 0
  /\ abortPending' = abortPending - 1
  /\ xrayCmd' = stopXray(xrayCmd)
  /\ param' = setParam(param, "TRIGGER", 0)
  /\ IF param["REPORT"] = 1
       THEN /\ mean_stats' = 0
            /\ shutterTime' = <<"list", 0>>
            /\ dutyCycleList' = <<>>
       ELSE UNCHANGED <<mean_stats, shutterTime, dutyCycleList>>
  /\ hist' = [hist EXCEPT !.offSent = abortPending' > 0 /\ (@ \/ StopXrayPuts)]
  /\ UNCHANGED <<fixed, masterVars, acquire,
                 edges, pollVars, threadVars, countVars, shutterTimeList, report,
                 daqVars, nTriggers, xrayStatus, xrayFiring, detVars, scanVars>>

\* -------------------------------------------------------- write (requests)
FreeSlots == {t \in SyncIds : pc[t] = "idle"}
FreeSlot == CHOOSE t \in FreeSlots : \A u \in FreeSlots : t <= u

\* write, lines 270-281 and 313: TRIGGER = 1 puts cam1:Acquire = 1 and starts a sync
\* thread, whatever is running
write_TRIGGER ==
  /\ nTriggers < MaxTriggers
  /\ FreeSlots # {}
  /\ nTriggers' = nTriggers + 1
  /\ pc' = [pc EXCEPT ![FreeSlot] = SyncEntry]
  /\ runId' = [runId EXCEPT ![FreeSlot] = nTriggers + 1]
  /\ param' = setParam(param, "TRIGGER", 1)
  /\ acquire' = 1

\* the operator writes TRIGGER = 1
OperatorTrigger ==
  /\ write_TRIGGER
  /\ UNCHANGED <<fixed, masterVars,
                 shutterTime, edges, pollVars, countVars, listVars, daqVars,
                 abortPending, xrayVars, detVars, scanVars, hist>>

\* the operator writes SEND_TRIGGER, lines 282-286 and 313
OperatorSendTrigger ==
  /\ \E value \in Bit :
       /\ trigThreads' = write_SEND_TRIGGER(0, value)
       /\ param' = setParam(param, "SEND_TRIGGER", value)
  /\ UNCHANGED <<fixed, masterVars, acquire,
                 shutterTime, edges, pollVars, threadVars, countVars, listVars,
                 trigLine, abortPending, nTriggers, xrayVars, detVars, scanVars, hist>>

\* ------------------------------------------------------------ environment
\* the sscan record (lines 80-89): the dimensions and point counts a scan may have
ScanConfigs ==
  {<<1, [a \in 1 .. 4 |-> IF a = 1 THEN n ELSE 1]>> : n \in 1 .. MaxPts}
    \cup {<<2, [a \in 1 .. 4 |-> IF a = 2 THEN MaxPts ELSE 1]>>}

ScanStart ==
  /\ ~scanBusy
  /\ nTriggers < MaxTriggers
  /\ \E c \in ScanConfigs : scanDim' = c[1] /\ scanNpts' = c[2]
  /\ scanBusy' = TRUE
  /\ scanPt' = 0
  /\ scanWait' = FALSE
  /\ UNCHANGED <<fixed, masterVars, acquire,
                 param, shutterTime, edges, pollVars, threadVars, countVars,
                 listVars, daqVars, abortPending, nTriggers, xrayVars, detVars, hist>>

\* the scan triggers its detector T1PV = TRIGGER (line 193) and waits at scan1.WAIT
ScanTrigger ==
  /\ scanBusy /\ ~scanWait
  /\ scanPt < TotalNpts(scanDim, scanNpts, 0)
  /\ write_TRIGGER
  /\ scanPt' = scanPt + 1
  /\ scanWait' = TRUE
  /\ UNCHANGED <<fixed, masterVars,
                 shutterTime, edges, pollVars, countVars, listVars, daqVars,
                 abortPending, xrayVars, detVars, scanBusy, scanDim, scanNpts, hist>>

\* the scan is over once its last point was released (scan1.BUSY = 0)
ScanEnd ==
  /\ scanBusy /\ ~scanWait
  /\ scanPt = TotalNpts(scanDim, scanNpts, 0)
  /\ scanBusy' = FALSE
  /\ scanPt' = 0
  /\ UNCHANGED <<fixed, masterVars, acquire,
                 param, shutterTime, edges, pollVars, threadVars, countVars,
                 listVars, daqVars, abortPending, nTriggers, xrayVars, detVars, scanDim,
                 scanNpts, scanWait, hist>>

\* the detector (lines 57-59): a 0->1 of the expose line while it is ready starts an
\* exposure: ready goes low, exposing goes high, exposing goes low, ready goes high.
\* Each level lasts longer than POLL_TIME (line 95): the poller has sampled the lines
\* before they change again
Detector ==
  /\ daq_init_flag = 1
  /\ pollPc = "loop" /\ oldval = lines
  /\ \/ detPhase = "idle" /\ detReq /\ detPhase' = "busy" /\ lines' = <<0, 0>>
        /\ detReq' = FALSE
     \/ detPhase = "busy" /\ detPhase' = "exposing" /\ lines' = <<0, 1>>
        /\ UNCHANGED detReq
     \/ detPhase = "exposing" /\ detPhase' = "readout" /\ lines' = <<0, 0>>
        /\ UNCHANGED detReq
     \/ detPhase = "readout" /\ detPhase' = "idle" /\ lines' = <<1, 0>>
        /\ UNCHANGED detReq
  /\ UNCHANGED <<fixed, masterVars, acquire,
                 param, shutterTime, edges, pollVars, threadVars, countVars,
                 listVars, daqVars, abortPending, nTriggers, xrayVars, scanVars, hist>>

\* the source (lines 376-394): warm-up ends; it outputs after ON or PULSE_MODE 0;
\* it goes to standby after ON 0
XraySource ==
  /\ \/ xrayStatus = 0 /\ xrayStatus' = 1 /\ UNCHANGED xrayFiring
     \/ /\ xrayStatus \in {1, 2, 3} /\ xrayCmd \in {"on", "pulse_off"} /\ xrayFiring = 0
        /\ xrayStatus' = 2 /\ xrayFiring' = 1
     \/ /\ xrayCmd = "off" /\ xrayFiring = 1
        /\ xrayStatus' = 1 /\ xrayFiring' = 0
  /\ UNCHANGED <<fixed, masterVars, acquire,
                 param, shutterTime, edges, pollVars, threadVars, countVars,
                 listVars, daqVars, abortPending, nTriggers, xrayCmd, detVars, scanVars,
                 hist>>

\* --------------------------------------------------------------- the driver
InitHist == [fluxDone |-> {}, trigIssued |-> {}, offSent |-> FALSE]

\* notExposing: self.notExposing (line 349), 0 before the first exposure ends;
\* idleFrom: its value when the ready line last went low
InitEdges == [run |-> 0, twoReady |-> FALSE, wf |-> "rD", notExposing |-> 0,
              idleFrom |-> 0, held |-> FALSE]

\* pvdb with the autosaved XSYNC and REPORT
InitParam(xsync, rep) ==
  [n \in ParamNames |-> CASE n = "XSYNC" -> xsync
                          [] n = "REPORT" -> rep
                          [] n = "DUTYCYCLE_RBV" -> <<0, 1>>
                          [] OTHER -> 0]

\* __init__, lines 149-165, no sync thread, no request
InitDriver ==
  /\ clock = 0
  /\ oldval = <<0, 0>>
  /\ shutter_open = 0
  /\ shutter_close = 0
  /\ trigger_not_ready_rbv = 0
  /\ idleTime = 0
  /\ shutterTime = <<"unset", 0>>
  /\ edges = InitEdges
  /\ pc = [t \in SyncIds |-> "idle"]
  /\ runId = [t \in SyncIds |-> 0]
  /\ total_cpts = 0
  /\ total_npts = 0
  /\ dutyCycleList = <<>>
  /\ shutterTimeList = <<>>
  /\ mean_stats = 0
  /\ report = <<"none", <<>>>>
  /\ trigThreads = {}
  /\ trigLine = 0
  /\ abortPending = 0
  /\ xrayFiring = 0
  /\ xrayCmd = "none"
  /\ detPhase = "idle"
  /\ detReq = FALSE
  /\ lines = <<1, 0>>
  /\ scanBusy = FALSE
  /\ scanDim = 1
  /\ scanNpts = [a \in 1 .. 4 |-> 1]
  /\ scanPt = 0
  /\ scanWait = FALSE
  /\ nTriggers = 0
  /\ abortPc = "idle"
  /\ dmov = [a \in Axes |-> 1]
  /\ stopSent = {}
  /\ acquire = 0
  /\ XRAY_IOC = "OXFORD"
  /\ hist = InitHist

\* the source modes and states the driver can start with
InitSource ==
  \E xsync \in 0 .. 2, rep \in Bit :
    /\ param = InitParam(xsync, rep)
    /\ xrayStatus \in IF xsync = 2 THEN {0, 1, 5} ELSE {1}

\* __init__, lines 172-191: the DAQ tasks are created and the poller started (Hard),
\* or creating them failed (Soft); REPORT and XSYNC hold their autosaved values
Init ==
  /\ InitDriver
  /\ daq_init_flag \in Bit
  /\ pollPc = IF daq_init_flag = 1 THEN "first" ELSE "off"
  /\ clockSteps = {1}
  /\ InitSource

\* single exposures: the operator writes TRIGGER, no scan runs
Next ==
  \/ pollQi2 /\ UNCHANGED edges
  \/ \E t \in SyncIds : sync_flux(t) \/ sync_exposure(t)
  \/ sendTrigger
  \/ OperatorTrigger
  \/ Detector
  \/ XraySource

Spec == Init /\ [][Next]_vars

\* ------------------------------------------------------- scans and aborts
\* Hard mode with source SRI (XSYNC = 1), whose status startXray never reads
InitScan ==
  /\ InitDriver
  /\ daq_init_flag = 1
  /\ pollPc = "first"
  /\ clockSteps = {1}
  /\ \E rep \in Bit : param = InitParam(1, rep)
  /\ xrayStatus = 1

\* the sendTrigger thread of a write runs during the 25 ms sleep that follows the write
\* (lines 445, 451)
PromptWrites == trigThreads = {}

NextScan ==
  \/ pollQi2 /\ UNCHANGED edges
  \/ \E t \in SyncIds :
       \/ sync_startXray(t)
       \/ sync_trigger(t)
       \/ PromptWrites /\ sync_wait_ready(t)
       \/ PromptWrites /\ sync_wait_exposing(t)
       \/ sync_scan_logic(t)
       \/ sync_stats(t)
  \/ sendTrigger
  \/ scanAbortCallback
  \/ scanAbortSeq
  \/ ScanStart
  \/ ScanTrigger
  \/ ScanEnd
  \/ Detector

SpecScan == InitScan /\ [][NextScan]_vars

\* ------------------------------------------------------------- Soft mode
\* __init__, lines 186-190: creating the DAQ tasks failed
InitSoftPolling ==
  /\ InitDriver
  /\ daq_init_flag = 0
  /\ pollPc = "first"
  /\ clockSteps = {1}
  /\ InitSource

InitSoft ==
  /\ InitDriver
  /\ daq_init_flag = 0
  /\ pollPc = "off"
  /\ clockSteps = {1}
  /\ InitSource

NextSoft ==
  \/ \E t \in SyncIds :
       \/ sync_flux(t)
       \/ sync_trigger(t) \/ sync_soft_wait(t) \/ sync_scan_logic(t)
       \/ sync_append(t) \/ sync_duty(t) \/ sync_finish(t)
  \/ scanAbortCallback
  \/ scanAbortSeq
  \/ OperatorTrigger
  \/ OperatorSendTrigger
  \/ ScanStart
  \/ ScanTrigger
  \/ ScanEnd
  \/ XraySource

SpecSoft == InitSoft /\ [][NextSoft]_vars

\* ---------------------------------------------- the poller on simulated samples
\* the edge a well-formed cycle (readyDeasserted, exposingAsserted, exposingDeasserted,
\* readyAsserted) awaits after `edge`, or "bad" once an edge came out of turn
WfNext(pos, edge) ==
  IF pos # edge THEN "bad"
  ELSE CASE edge = "rD" -> "eA"
         [] edge = "eA" -> "eD"
         [] edge = "eD" -> "rA"
         [] OTHER -> "rD"

\* the history after the edges of one sample: the ready line first, as in pollQi2
EdgesAfter(e, old, new) ==
  LET rA == new[1] # old[1] /\ new[1] = 1
      rD == new[1] # old[1] /\ new[1] = 0
      eA == new[2] # old[2] /\ new[2] = 1
      eD == new[2] # old[2] /\ new[2] = 0
      e1 == IF rA THEN [e EXCEPT !.run = IF e.run < 2 THEN e.run + 1 ELSE 2,
                                 !.twoReady = e.twoReady \/ e.run >= 1,
                                 !.wf = WfNext(e.wf, "rA")]
            ELSE IF rD THEN [e EXCEPT !.wf = WfNext(e.wf, "rD")]
            ELSE e
  IN IF eA THEN [e1 EXCEPT !.run = 0, !.wf = WfNext(e1.wf, "eA")]
     ELSE IF eD THEN [e1 EXCEPT !.wf = WfNext(e1.wf, "eD")]
     ELSE e1

\* pollQi2 with the history of its edges
PollObserved ==
  /\ pollQi2
  /\ edges' = IF pollPc = "loop"
                THEN [EdgesAfter(edges, oldval, lines) EXCEPT
                        !.notExposing = IF Edge(lines[2], oldval[2]) /\ lines[2] = 0
                                          THEN clock' ELSE @,
                        !.idleFrom = IF Edge(lines[1], oldval[1]) /\ lines[1] = 0
                                       THEN edges.notExposing ELSE @,
                        !.held = lines[1] = 1 /\ oldval[1] = 1]
                ELSE edges

\* any level on either input line (a simulated sample sequence)
LinesAny ==
  /\ \E r \in Bit, e \in Bit : lines' = <<r, e>>
  /\ lines' # lines
  /\ UNCHANGED <<fixed, masterVars, acquire,
                 param, shutterTime, edges, pollVars, threadVars, countVars,
                 listVars, daqVars, abortPending, nTriggers, xrayVars, detPhase, detReq,
                 scanVars, hist>>

\* two reads of time.clock() may return the same value
InitPoll ==
  /\ InitDriver
  /\ daq_init_flag = 1
  /\ pollPc = "first"
  /\ clockSteps = {0, 1}
  /\ param = InitParam(0, 0)
  /\ xrayStatus = 1

NextPoll == PollObserved \/ LinesAny

SpecPoll == InitPoll /\ [][NextPoll]_vars

\* ------------------------------------------------ afterScan on the lists of a scan
\* the duty cycles a scan appends: shutter / (idle + shutter) for an idle time of k ticks
DutySamples == {DutyCycle(1, k) : k \in 1 .. MaxLen}

\* the sequences over S of length n
SeqsOfLen(S, n) == [1 .. n -> S]

\* Hard mode, XSYNC = 1: the sync thread of the last point of a scan of n + 1 points has
\* counted its exposure and appended its samples (line 484 is next); the scan appended
\* one duty cycle for each point but the first
InitReport ==
  /\ daq_init_flag = 1
  /\ pollPc = "loop"
  /\ clockSteps = {1}
  /\ clock = 0 /\ oldval = <<1, 0>> /\ lines = <<1, 0>>
  /\ shutter_open = 0 /\ shutter_close = 0 /\ trigger_not_ready_rbv = 0 /\ idleTime = 1
  /\ shutterTime = <<"float", 1>>
  /\ edges = InitEdges
  /\ \E rep \in Bit : param = [InitParam(1, rep) EXCEPT !["TRIGGER"] = 1,
                                                       !["TRIGGER_READY_RBV"] = 1]
  /\ \E n \in 0 .. MaxLen :
       /\ dutyCycleList \in SeqsOfLen(DutySamples, n)
       /\ shutterTimeList = [i \in 1 .. n + 1 |-> <<"float", 1>>]
       /\ total_cpts = n + 1
       /\ total_npts = n + 1
       /\ scanNpts = [a \in 1 .. 4 |-> IF a = 1 THEN n + 1 ELSE 1]
       /\ scanPt = n + 1
       /\ mean_stats = IF param["REPORT"] = 1 THEN n ELSE 0
  /\ pc = [t \in SyncIds |-> IF t = 1 THEN "finish" ELSE "idle"]
  /\ runId = [t \in SyncIds |-> IF t = 1 THEN 1 ELSE 0]
  /\ report = <<"none", <<>>>>
  /\ trigThreads = {}
  /\ trigLine = 1
  /\ abortPending = 0
  /\ xrayStatus = 2 /\ xrayFiring = 1 /\ xrayCmd = "on"
  /\ detPhase = "idle" /\ detReq = FALSE
  /\ scanBusy = TRUE /\ scanDim = 1 /\ scanWait = FALSE
  /\ nTriggers = MaxTriggers
  /\ abortPc = "idle"
  /\ dmov = [a \in Axes |-> 1]
  /\ stopSent = {}
  /\ acquire = 1
  /\ XRAY_IOC = Endpoint(1)
  /\ hist = [InitHist EXCEPT !.fluxDone = {1}, !.trigIssued = {1}]

NextReport == \E t \in SyncIds : sync_finish(t)

SpecReport == InitReport /\ [][NextReport]_vars

\* ------------------------------------------------- aborts during the polls
\* the whole of a sync thread
sync(t) == sync_flux(t) \/ sync_exposure(t) \/ sync_stats(t)

\* Hard mode with source OXFORD (XSYNC = 2) in standby, reporting off
InitAbort ==
  /\ InitDriver
  /\ daq_init_flag = 1
  /\ pollPc = "first"
  /\ clockSteps = {1}
  /\ param = InitParam(2, 0)
  /\ xrayStatus = 1

\* one scan, which the operator may abort
NextAbort ==
  \/ pollQi2 /\ UNCHANGED edges
  \/ \E t \in SyncIds :
       \/ sync_flux(t)
       \/ sync_trigger(t)
       \/ PromptWrites /\ sync_wait_ready(t)
       \/ PromptWrites /\ sync_wait_exposing(t)
       \/ sync_scan_logic(t)
       \/ sync_stats(t)
  \/ sendTrigger
  \/ scanAbortCallback
  \/ scanAbortSeq
  \/ nTriggers = 0 /\ ScanStart
  \/ ScanTrigger
  \/ ScanEnd
  \/ Detector
  \/ XraySource

\* the threads of the driver are scheduled again and again; nothing makes the source
\* fire or the detector go on with its cycle
FairThreads ==
  /\ \A t \in SyncIds : WF_vars(sync(t))
  /\ WF_vars(pollQi2 /\ UNCHANGED edges)
  /\ WF_vars(sendTrigger)
  /\ WF_vars(scanAbortSeq)

SpecAbort == InitAbort /\ [][NextAbort]_vars /\ FairThreads

\* ------------------------------------------ single exposures, any source status
\* startXray reads STATUS_RBV for XSYNC = 2 only (line 376); the sources of the other
\* modes can be warming (0), in standby (1) or in fault (5) as well
InitSourceAny ==
  \E xsync \in 0 .. 2, rep \in Bit :
    /\ param = InitParam(xsync, rep)
    /\ xrayStatus \in {0, 1, 5}

InitFlux ==
  /\ InitDriver
  /\ daq_init_flag \in Bit
  /\ pollPc = IF daq_init_flag = 1 THEN "first" ELSE "off"
  /\ clockSteps = {1}
  /\ InitSourceAny

SpecFlux == InitFlux /\ [][Next]_vars

\* ------------------------------------------------- a scan without aborts
\* Hard mode with source SRI; two reads of time.clock() may return the same value
InitDuty ==
  /\ InitDriver
  /\ daq_init_flag = 1
  /\ pollPc = "first"
  /\ clockSteps = {0, 1}
  /\ param = InitParam(1, 0)
  /\ xrayStatus = 1

\* the scans of NextScan, none of them aborted
NextDuty ==
  \/ pollQi2 /\ UNCHANGED edges
  \/ \E t \in SyncIds :
       \/ sync_startXray(t)
       \/ sync_trigger(t)
       \/ PromptWrites /\ sync_wait_ready(t)
       \/ PromptWrites /\ sync_wait_exposing(t)
       \/ sync_scan_logic(t)
       \/ sync_stats(t)
  \/ sendTrigger
  \/ ScanStart
  \/ ScanTrigger
  \/ ScanEnd
  \/ Detector

SpecDuty == InitDuty /\ [][NextDuty]_vars

\* ------------------------------------------------------------ source mode
\* write, lines 268-269 and 313: XSYNC is stored in the parameter table
write_XSYNC ==
  /\ \E value \in 0 .. 2 :
       /\ value # param["XSYNC"]
       /\ param' = setParam(param, "XSYNC", value)
  /\ UNCHANGED <<fixed, masterVars, acquire,
                 shutterTime, edges, pollVars, threadVars, countVars, listVars,
                 daqVars, abortPending, nTriggers, xrayVars, detVars, scanVars, hist>>

\* read, lines 252-259: a read of XSYNC_RBV (a client's, or the record's scan) sets the
\* global XRAY_IOC from XSYNC
read_XSYNC_RBV ==
  /\ XRAY_IOC' = Endpoint(param["XSYNC"])
  /\ UNCHANGED <<daq_init_flag, clockSteps, masterVars, acquire,
                 param, shutterTime, edges, pollVars, threadVars, countVars, listVars,
                 daqVars, abortPending, nTriggers, xrayVars, detVars, scanVars, hist>>

\* Soft mode with source OXFORD selected and XRAY_IOC naming it (line 62); xrayStatus,
\* xrayFiring and xrayCmd are those of the source XRAY_IOC names
InitMode ==
  /\ InitDriver
  /\ daq_init_flag = 0
  /\ pollPc = "off"
  /\ clockSteps = {1}
  /\ param = InitParam(2, 0)
  /\ xrayStatus \in {0, 1}

\* single exposures, with the operator changing the source mode at any time
NextMode ==
  \/ \E t \in SyncIds :
       \/ sync_flux(t)
       \/ sync_trigger(t) \/ sync_soft_wait(t) \/ sync_scan_logic(t)
  \/ OperatorTrigger
  \/ XraySource
  \/ write_XSYNC
  \/ read_XSYNC_RBV

SpecMode == InitMode /\ [][NextMode]_vars
\* write, lines 303-306 and 313: ABORT = 1 starts an allAbort thread
write_ABORT ==
  /\ abortPc = "idle"
  /\ abortPc' = "scans"
  /\ UNCHANGED <<fixed, dmov, stopSent, acquire, param, shutterTime, edges, pollVars,
                 threadVars, countVars, listVars, daqVars, abortPending, nTriggers,
                 xrayVars, detVars, scanVars, hist>>

\* allAbort, line 610: AbortScans.PROC is put; the sscan record stops its scans and the
\* monitor event starts a scanAbortSeq thread (scanAbortCallback, lines 578-584)
allAbort_scans ==
  /\ abortPc = "scans"
  /\ abortPending < MaxAborts
  /\ abortPending' = abortPending + 1
  /\ scanBusy' = FALSE
  /\ scanWait' = FALSE
  /\ scanPt' = 0
  /\ abortPc' = "motors"
  /\ UNCHANGED <<fixed, dmov, stopSent, acquire, param, shutterTime, edges, pollVars,
                 threadVars, countVars, listVars, daqVars, nTriggers, xrayVars, detVars,
                 scanDim, scanNpts, hist>>

\* the axes that receive a STOP, lines 611-613: those whose .DMOV reads 0
Stops(d) == {a \in Axes : d[a] = 0}

\* allAbort, lines 611-613: the loop over MOTOR_IOC_LIST
allAbort_motors ==
  /\ abortPc = "motors"
  /\ stopSent' = stopSent \cup Stops(dmov)
  /\ abortPc' = "acquire"
  /\ UNCHANGED <<fixed, dmov, acquire, param, shutterTime, edges, pollVars, threadVars,
                 countVars, listVars, daqVars, abortPending, nTriggers, xrayVars,
                 detVars, scanVars, hist>>

\* allAbort, lines 614-616: cam1:Acquire = 0, the thread ends
allAbort_acquire ==
  /\ abortPc = "acquire"
  /\ acquire' = 0
  /\ abortPc' = "idle"
  /\ UNCHANGED <<fixed, dmov, stopSent, param, shutterTime, edges, pollVars, threadVars,
                 countVars, listVars, daqVars, abortPending, nTriggers, xrayVars,
                 detVars, scanVars, hist>>

allAbort == allAbort_scans \/ allAbort_motors \/ allAbort_acquire

\* no axis is moving
AllDone == \A a \in Axes : dmov[a] = 1

\* the scan moves a positioner before it triggers the detector of its next point
MotorMoves ==
  /\ scanBusy /\ ~scanWait
  /\ \E a \in Axes :
       /\ dmov[a] = 1
       /\ dmov' = [dmov EXCEPT ![a] = 0]
  /\ UNCHANGED <<fixed, abortPc, stopSent, acquire, param, shutterTime, edges, pollVars,
                 threadVars, countVars, listVars, daqVars, abortPending, nTriggers,
                 xrayVars, detVars, scanVars, hist>>

\* a moving axis stops: it arrived, or its .STOP acted
MotorDone ==
  /\ \E a \in Axes :
       /\ dmov[a] = 0
       /\ dmov' = [dmov EXCEPT ![a] = 1]
       /\ stopSent' = stopSent \ {a}
  /\ UNCHANGED <<fixed, abortPc, acquire, param, shutterTime, edges, pollVars,
                 threadVars, countVars, listVars, daqVars, abortPending, nTriggers,
                 xrayVars, detVars, scanVars, hist>>

\* Soft mode with source SRI (XSYNC = 1)
InitMaster ==
  /\ InitDriver
  /\ daq_init_flag = 0
  /\ pollPc = "off"
  /\ clockSteps = {1}
  /\ \E rep \in Bit : param = InitParam(1, rep)
  /\ xrayStatus = 1

\* no abort is under way
NoAbort == abortPc = "idle" /\ abortPending = 0

\* scans, and the operator writes ABORT at any time; a scan is not started while an
\* abort is under way
NextMaster ==
  \/ \E t \in SyncIds :
       \/ sync_startXray(t)
       \/ sync_trigger(t) \/ sync_soft_wait(t) \/ sync_scan_logic(t)
       \/ sync_append(t) \/ sync_duty(t) \/ sync_finish(t)
  \/ write_ABORT
  \/ allAbort
  \/ scanAbortSeq
  \/ NoAbort /\ ScanStart
  \/ AllDone /\ ScanTrigger
  \/ AllDone /\ ScanEnd
  \/ MotorMoves
  \/ MotorDone

SpecMaster == InitMaster /\ [][NextMaster]_vars

\* ------------------------------------------------------------------ claims
\* the sync threads alive
ActiveRuns == {t \in SyncIds : pc[t] # "idle"}

\* the thread of slot t takes a step
Steps(t) == pc'[t] # pc[t]

\* the thread of slot t serves the point the running scan triggered last
ServesScanPoint(t) == scanBusy /\ scanPt >= 1 /\ runId[t] = nTriggers

\* C1: at most one sync run is active at any time: a TRIGGER = 1 write that arrives
\* while a run is in progress starts no second sync run.
C1_SingleActiveRun == Cardinality(ActiveRuns) <= 1

\* C2: when a scan abort is handled while a run is in its Exposing step (the wait on
\* the exposing line), the sequencer is Idle afterwards (no sync run goes on), the
\* per-scan sample sequences are empty whatever REPORT is, and the abort requests
\* raised together put at most one 'off' to the source.
C2_AbortForcesIdle ==
  [][(abortPending' < abortPending /\ \E t \in SyncIds : pc[t] = "wait_exposing")
       => /\ \A t \in SyncIds : pc'[t] = "idle"
          /\ dutyCycleList' = <<>> /\ shutterTimeList' = <<>>
          /\ ~(hist.offSent /\ StopXrayPuts)]_vars

\* C3: in a scan of N points (reporting off), the sync run that completes the N-th
\* exposure leaves the sequencer Idle (TRIGGER = 0, total_cpts = 0) with the source
\* commanded off, and a run that completes an earlier exposure of the scan does not run
\* the end-of-scan handling (TRIGGER stays 1, the count is kept).
C3_ScanEndsAfterN ==
  [][\A t \in SyncIds :
       (pc[t] = "finish" /\ Steps(t) /\ ServesScanPoint(t) /\ param["REPORT"] = 0)
         => IF scanPt = TotalNpts(scanDim, scanNpts, 0)
              THEN param'["TRIGGER"] = 0 /\ total_cpts' = 0 /\ xrayCmd' = "off"
              ELSE param'["TRIGGER"] = param["TRIGGER"] /\ total_cpts' = total_cpts]_vars

\* C4: in Soft mode (daq_init_flag = 0) no sendTrigger thread is ever started, the
\* trigger output line is never written, the pollQi2 thread never runs, and no sync run
\* waits on the handshake lines, whatever TRIGGER, SEND_TRIGGER, abort and scan events
\* occur.
C4_SoftNeverUsesDaq ==
  daq_init_flag = 0
    => /\ trigThreads = {}
       /\ trigLine = 0
       /\ pollPc = "off"
       /\ \A t \in SyncIds : pc[t] \notin {"wait_ready", "wait_exposing"}

\* C4 witness: in Soft mode the operator has written SEND_TRIGGER = 1, an abort is
\* pending and a sync run has passed the software trigger and the acquire-time wait.
C4_Witness ==
  /\ daq_init_flag = 0
  /\ param["SEND_TRIGGER"] = 1
  /\ abortPending > 0
  /\ \E t \in SyncIds : pc[t] = "scan_logic"

\* C5: the poller never processes two readyAsserted edges without an exposingAsserted
\* edge between them, whatever samples it is fed.
C5_ReadyAfterExposing == ~edges.twoReady

\* C6: while the edges processed form a well-formed sequence (readyDeasserted,
\* exposingAsserted, exposingDeasserted, readyAsserted, repeated, with non-decreasing
\* timestamps), the idle duration and the shutter duration the poller has computed
\* are >= 0.
C6_DurationsNonNegative ==
  edges.wf # "bad"
    => /\ idleTime >= 0
       /\ shutterTime[1] = "float" => shutterTime[2] >= 0

\* C6 witness: a well-formed cycle is complete and both durations are positive.
C6_Witness ==
  /\ edges.wf = "rD"
  /\ shutterTime[1] = "float"
  /\ shutterTime[2] > 0
  /\ idleTime > 0

\* C7: in a running Hard-mode scan no sync run appends a duty cycle before the second
\* point of the scan (the run of the first point appends none), and the percentage of
\* shutterDuration = idleDuration = 1 is 50.
C7_DutyFromSecondExposure ==
  [][/\ \A t \in SyncIds :
          (pc[t] = "duty" /\ Steps(t) /\ ServesScanPoint(t)
             /\ Len(dutyCycleList') = Len(dutyCycleList) + 1)
            => scanPt >= 2
     /\ DutyPercent(1, 1)[1] = 50 * DutyPercent(1, 1)[2]]_vars

\* C8: when afterScan writes the scan report, the duty-cycle list it aggregates is the
\* accumulated list without its first two elements, the rest in order.
C8_AggregatesSuffix ==
  [][report' # report
       => report'[2] = SubSeq(dutyCycleList, 3, Len(dutyCycleList))]_vars

\* C9: a run issues its trigger (the SEND_TRIGGER write in Hard mode, the software
\* trigger in Soft mode) only after its startXray has returned: no run that is still in
\* startXray has issued a trigger or has a sendTrigger thread.
C9_FluxBeforeTrigger ==
  /\ hist.trigIssued \subseteq hist.fluxDone
  /\ \A t \in SyncIds :
       pc[t] \in {"startXray", "x_wait"}
         => /\ runId[t] \notin hist.trigIssued
            /\ \A th \in trigThreads : th.run # runId[t]

\* C9 witness: a run with source XSYNC = 2 has returned from startXray, has written
\* SEND_TRIGGER = 0 and its sendTrigger thread is about to write the line.
C9_Witness ==
  \E t \in SyncIds :
    /\ pc[t] = "wait_ready"
    /\ param["XSYNC"] = 2
    /\ xrayFiring = 1
    /\ runId[t] \in hist.fluxDone \cap hist.trigIssued
    /\ [run |-> runId[t], value |-> 0] \in trigThreads

\* C10: a run whose startXray finds the source in Fault or Warming goes to Idle with
\* its next step, without a later protocol step.
C10_FluxErrorAbortsRun ==
  [][\A t \in SyncIds :
       (pc[t] = "startXray" /\ Steps(t) /\ FluxError(param["XSYNC"], xrayStatus))
         => pc'[t] = "idle"]_vars

\* C11: in a Hard-mode run the low write of the trigger line takes effect before the
\* high write of the same run: the sendTrigger thread of a run's SEND_TRIGGER = 1 never
\* runs while the thread of the same run's SEND_TRIGGER = 0 has not run yet.
C11_LowBeforeHigh ==
  [][\A th \in trigThreads :
       (th.value = 1 /\ th.run # 0 /\ trigThreads' = trigThreads \ {th})
         => [run |-> th.run, value |-> 0] \notin trigThreads]_vars

\* the polls of a Hard-mode run: FIRING_RBV in startXray, then the two handshake lines
Polls == {"x_wait", "wait_ready", "wait_exposing"}

\* C12: an abort raised while a run waits in one of its polls is honoured: the run
\* eventually leaves the poll and reaches Idle, even if the awaited signal never comes.
C12_AbortHonouredMidPoll ==
  \A t \in SyncIds : (abortPending > 0 /\ pc[t] \in Polls) ~> (pc[t] = "idle")

\* the source is in Fault (5) or Warming (0)
SourceNotReady == xrayStatus \in {0, 5}

\* C13: whenever startXray runs with the source in Fault or Warming, in any mode, or in
\* mode None (XSYNC = 0), it puts no command to the source and returns at once (the run
\* does not enter the FIRING_RBV poll).
C13_NoCommandUnlessReady ==
  [][\A t \in SyncIds :
       (pc[t] = "startXray" /\ Steps(t) /\ (SourceNotReady \/ param["XSYNC"] = 0))
         => /\ xrayCmd' = xrayCmd
            /\ StartXrayCmd(param["XSYNC"], xrayStatus, "none") = "none"
            /\ pc'[t] # "x_wait"]_vars

\* C14: every call of stopXray (here the one that ends a single exposure) puts 'off' to
\* the source when the mode is not None and nothing when it is None, whatever the
\* status of the source and whatever other runs are doing, and a second call right
\* after it would change nothing.
C14_StopXrayOffIdempotent ==
  [][\A t \in SyncIds :
       (pc[t] = "scan_logic" /\ Steps(t) /\ ~scanBusy)
         => /\ xrayCmd' = IF param["XSYNC"] = 0 THEN xrayCmd ELSE "off"
            /\ StopXrayPuts <=> param["XSYNC"] # 0
            /\ stopXray(xrayCmd') = xrayCmd'
            /\ xrayStatus' = xrayStatus /\ xrayFiring' = xrayFiring]_vars

\* C14 witness: stopXray has put 'off' to a source in fault (XSYNC = 2) at the end of a
\* single exposure, while another run is under way.
C14_Witness ==
  /\ param["XSYNC"] = 2
  /\ xrayStatus = 5
  /\ xrayCmd = "off"
  /\ param["TRIGGER"] = 0
  /\ \E t \in SyncIds : pc[t] \notin {"idle", "startXray"}

\* the last step of a master abort: its allAbort thread and the scanAbortSeq thread it
\* caused have both ended
MasterAbortEnds ==
  /\ abortPc # "idle" \/ abortPending > 0
  /\ abortPc' = "idle" /\ abortPending' = 0

\* C15: a master abort puts STOP to exactly the axes that are moving and, once it has
\* run to its end, from any state, the source is commanded off, the accumulated
\* statistics are cleared, no sync run is active and detector acquisition is disabled.
C15_MasterAbort ==
  [][/\ (abortPc = "motors" /\ abortPc' = "acquire")
          => stopSent' \ stopSent = {a \in Axes : dmov[a] = 0} \ stopSent
     /\ MasterAbortEnds
          => /\ xrayCmd' = "off"
             /\ dutyCycleList' = <<>> /\ shutterTimeList' = <<>> /\ mean_stats' = 0
             /\ \A t \in SyncIds : pc'[t] = "idle"
             /\ acquire' = 0]_vars

C17_IdleFromExposingEnd ==
  [][(/\ pollPc = "loop" /\ edges.wf = "rA"
      /\ Edge(lines[1], oldval[1]) /\ lines[1] = 1
      /\ edges.idleFrom # shutter_close)
       => idleTime' = trigger_not_ready_rbv - edges.idleFrom]_vars

\* C18: when a scan ends with reporting enabled and fewer than two duty-cycle samples,
\* no report is written and no error is raised: afterScan runs to its end (the count and
\* the list are reset).
C18_FewSamplesSkipReport ==
  [][\A t \in SyncIds :
       (/\ pc[t] = "finish" /\ Steps(t)
        /\ param["REPORT"] = 1
        /\ ScanDone(total_cpts, total_npts')
        /\ Len(dutyCycleList) < 2)
         => /\ report' = report
            /\ total_cpts' = 0
            /\ dutyCycleList' = <<>>]_vars

\* C19: while the sync run of a scan point has not yet appended the point's statistics
\* (shutter time, duty cycle, image mean and sigma), the scan still waits at its gate
\* (scan1.WAIT has not been released for the point).
C19_GateAfterStatistics ==
  \A t \in SyncIds :
    (ServesScanPoint(t) /\ pc[t] \in {"append", "duty", "publish", "finish"})
      => scanWait

\* C20: when a Hard-mode run appends the sample of its exposure, the exposure is over
\* and the poller has processed its end: the detector is back at rest, the poller has
\* sampled the lines as they are, and self.shutterTime holds a measured duration.
C20_SampleOfThisExposure ==
  [][\A t \in SyncIds :
       (pc[t] = "append" /\ Steps(t) /\ daq_init_flag = 1)
         => /\ shutterTime[1] = "float"
            /\ detPhase = "idle" /\ ~detReq
            /\ oldval = lines]_vars

\* C21: when the end-of-scan handling has run to its end (the sync run of the scan's
\* last point has reset the exposure count), the shutter-time list and the duty-cycle
\* list are both empty.
C21_ListsEmptyAfterScan ==
  [][\A t \in SyncIds :
       (/\ pc[t] = "finish" /\ Steps(t) /\ ServesScanPoint(t)
        /\ total_cpts > 0 /\ total_cpts' = 0)
         => shutterTimeList' = <<>> /\ dutyCycleList' = <<>>]_vars

\* C22: once a scan abort has been handled with no sync run in flight, no exposure of
\* the aborted scan is still counted (total_cpts = 0), so that the next scan of N points
\* reaches the end-of-scan handling after N exposures of its own.
C22_AbortedScanNotCounted ==
  [][(abortPending' < abortPending /\ abortPending' = 0 /\ ActiveRuns = {})
       => total_cpts' = 0]_vars

\* the timing fields the edges of the ready line write, and the one the exposing line writes
ReadyFields == <<idleTime, shutter_close, shutterTime, trigger_not_ready_rbv>>

\* C23: a sample in which a line has the level of the previous sample raises no transition
\* for that line and leaves the timing fields its transitions write unchanged (a repeated
\* asserted sample included); the first sample raises no transition and sets no field.
C23_SameLevelNoTransition ==
  [][lines' = lines =>
       /\ pollPc = "first" =>
            /\ UNCHANGED <<ReadyFields, shutter_open, clock>>
            /\ edges' = edges
       /\ (pollPc = "loop" /\ lines[1] = oldval[1]) =>
            /\ UNCHANGED ReadyFields
            /\ edges'.idleFrom = edges.idleFrom
       /\ (pollPc = "loop" /\ lines[2] = oldval[2]) =>
            /\ UNCHANGED shutter_open
            /\ edges'.notExposing = edges.notExposing
       /\ (pollPc = "loop" /\ lines = oldval) =>
            /\ UNCHANGED clock
            /\ edges'.wf = edges.wf /\ edges'.run = edges.run]_vars

\* the ready line was sampled asserted twice in a row after a completed exposure, and the
\* clock has advanced since the exposure's end was stamped
C23_Witness ==
  /\ edges.held
  /\ oldval[1] = 1
  /\ shutterTime[1] = "float"
  /\ clock > shutter_close

\* a sync run reads the status of the source (startXray with source OXFORD, line 376)
ReadsStatus == \E t \in SyncIds : pc[t] = "startXray" /\ Steps(t) /\ param["XSYNC"] = 2

\* C24: every command put to the source and every status read goes through the record
\* prefix of the source XSYNC selects at that moment, also when XSYNC_RBV has not been
\* read since XSYNC was written.
C24_CommandsToSelectedSource ==
  [][(xrayCmd' # xrayCmd \/ ReadsStatus) => XRAY_IOC = Endpoint(param["XSYNC"])]_vars

\* C25: the duty cycle a sync run publishes as DUTYCYCLE_RBV is the percentage of the
\* duty cycle the same run has just appended to the list of the scan: both are computed
\* from one pair (idleTime, shutterTime), whatever the poller does in between.
C25_DutyFromOnePair ==
  [][\A t \in SyncIds :
       (/\ pc[t] = "publish" /\ pc'[t] = "finish"
        /\ ActiveRuns = {t}
        /\ dutyCycleList # <<>>)
         => LET d == dutyCycleList[Len(dutyCycleList)]
                p == param'["DUTYCYCLE_RBV"]
            IN 100 * d[1] * p[2] = p[1] * d[2]]_vars

\* C26: when no sync run is active, no scan is running and no abort is under way, the
\* command last put to the source is 'off', unless no command was ever put to it.
C26_OffWhenIdle ==
  (ActiveRuns = {} /\ ~scanBusy /\ abortPending = 0 /\ abortPc = "idle")
    => xrayCmd \in {"none", "off"}

====
